---- MODULE Spec2Model ----
(***************************************************************************)
(* The Mars simulation: rovers, an alien and a spacecraft acting in turns  *)
(* on a shared grid.  Every agent's act() is one action; its random        *)
(* choices are existential; an uncaught Python exception sets `crashed`.   *)
(* Operators that transform the whole simulation take and return a world   *)
(* record w (the grid and every object on it); the ones that call          *)
(* random.choice return the set of worlds the call can produce, and a      *)
(* world that has raised skips the statements that follow.                 *)
(***************************************************************************)
EXTENDS Integers, Sequences, FiniteSets, TLC

VARIABLES mars, rovers, rocks, aliens, sc, crashed, ev, config, turn, acted

vars == <<mars, rovers, rocks, aliens, sc, crashed, ev, config, turn, acted>>

(***************************************************************************)
(* Program constants                                                       *)
(***************************************************************************)
DEFAULT_BATTERY_LIFE == 100
DEFAULT_BATTERY_CONSUMPTION_PER_MOVE == 5
FULL_BATTERY == 100
LOW_BATTERY == 30
CHARGE_REQUEST_BELOW == 50
SHARE_AMOUNT == 5
SHARE_MIN_HELPER == 30
DEFAULT_ENERGY_LIFE == 100
MAX_CHASE_MOVES == 3
SAFE_DISTANCE == 4
DETECT_RADIUS == 3
MOVE_ENERGY == 5
ATTACK_DAMAGE == 25
ATTACK_ENERGY == 20
HIBERNATE_BELOW == 20
HIBERNATE_GAIN == 10
FULL_ENERGY == 100
CHARGE_STEP == 5
TEAM_RANGE == 7
TEAM_LEAD_BATTERY == 100
TEAM_SECOND_BATTERY == 90
SPAWN_THRESHOLD == 100
SPAWN_TRIM == 100

(***************************************************************************)
(* Values                                                                  *)
(***************************************************************************)
None == <<>>

NoRock == 0

NoAgent == [kind |-> "none", id |-> 0]

RoverCell(r) == [kind |-> "rover", id |-> r]

AlienCell(a) == [kind |-> "alien", id |-> a]

RockCell(k) == [kind |-> "rock", id |-> k]

SpacecraftCell == [kind |-> "spacecraft", id |-> 0]

Abs(n) == IF n < 0 THEN 0 - n ELSE n

Sign(n) == IF n > 0 THEN 1 ELSE IF n < 0 THEN 0 - 1 ELSE 0

ToSet(s) == {s[i] : i \in DOMAIN s}

Contains(s, x) == \E i \in DOMAIN s : s[i] = x

\* list.remove(x): drops the first occurrence
RemoveFirst(s, x) ==
    LET i == CHOOSE j \in DOMAIN s : s[j] = x /\ \A h \in 1..(j - 1) : s[h] # x
    IN  SubSeq(s, 1, i - 1) \o SubSeq(s, i + 1, Len(s))

\* what happened in the current act(): a set of records of one shape
Event(type, a, b, l) == [type |-> type, a |-> a, b |-> b, loc |-> l]

Emit(w, e) == [w EXCEPT !.ev = @ \cup {e}]

Crash(w) == [w EXCEPT !.crashed = TRUE]

(***************************************************************************)
(* The grid (model/mars.py), as the interface section describes it         *)
(***************************************************************************)
AdjOffsets ==
    << <<0 - 1, 0 - 1>>, <<0 - 1, 0>>, <<0 - 1, 1>>, <<0, 0 - 1>>,
       <<0, 1>>, <<1, 0 - 1>>, <<1, 0>>, <<1, 1>> >>

get_agent(w, l) == w.mars[l]

set_agent(w, cell, l) == [w EXCEPT !.mars[l] = cell]

get_adjacent_locations(w, l) ==
    LET all == [i \in DOMAIN AdjOffsets |->
                  <<l[1] + AdjOffsets[i][1], l[2] + AdjOffsets[i][2]>>]
    IN  SelectSeq(all, LAMBDA n : n \in DOMAIN w.mars)

get_free_adjacent_locations(w, l) ==
    SelectSeq(get_adjacent_locations(w, l), LAMBDA n : w.mars[n] = NoAgent)

calculate_distance(l1, l2) == Abs(l1[1] - l2[1]) + Abs(l1[2] - l2[2])

get_adjacent_locations_upto_3_cells(w, l) ==
    {n \in DOMAIN w.mars : n # l /\ calculate_distance(n, l) <= DETECT_RADIUS}

(***************************************************************************)
(* Rover (model/rover.py)                                                  *)
(***************************************************************************)
NewRover(l, battery) ==
    [location |-> l, battery_life |-> battery, built_battery |-> battery,
     rock |-> NoRock, remembered_rocks |-> <<>>, request_charging |-> FALSE,
     target_location |-> None, damaged |-> FALSE, ignore_battery |-> FALSE,
     visited_locations |-> {}]

\* a scan that reports the picked-up rocks that lie in the adjacent cells too
ScanFindsDropped(w, r) ==
    LET adj == get_adjacent_locations(w, w.rovers[r].location)
        all == [k \in 1..Len(w.rocks) |-> k]
    IN  SelectSeq(all, LAMBDA k :
            /\ Contains(adj, w.rocks[k].location)
            /\ \/ get_agent(w, w.rocks[k].location) = [kind |-> "rock", id |-> k]
               \/ /\ w.rocks[k].picked_up
                  /\ \A q \in DOMAIN w.rovers : w.rovers[q].rock # k)

Rover__scan_for_rocks_in_adjacent_cells(w, r) ==
    LET adj == get_adjacent_locations(w, w.rovers[r].location)
        at  == SelectSeq(adj, LAMBDA l : get_agent(w, l).kind = "rock")
    IN  [i \in DOMAIN at |-> get_agent(w, at[i]).id]

RECURSIVE RememberFrom(_, _, _, _)
RememberFrom(w, r, found, i) ==
    IF i > Len(found) THEN w
    ELSE LET l == w.rocks[found[i]].location
             w1 == IF Contains(w.rovers[r].remembered_rocks, l) THEN w
                   ELSE [w EXCEPT !.rovers[r].remembered_rocks = Append(@, l)]
         IN  RememberFrom(w1, r, found, i + 1)

Rover__remember_rocks(w, r) ==
    RememberFrom(w, r, Rover__scan_for_rocks_in_adjacent_cells(w, r), 1)

Rover__move(w, r, new_location) ==
    LET previous_location == w.rovers[r].location
        w1 == set_agent(w, RoverCell(r), new_location)
        w2 == [w1 EXCEPT !.rovers[r].location = new_location]
        w3 == set_agent(w2, NoAgent, previous_location)
        k  == w3.rovers[r].rock
        w4 == IF k # NoRock THEN [w3 EXCEPT !.rocks[k].location = new_location]
              ELSE w3
    IN  Rover__remember_rocks(w4, r)

\* random.choice raises IndexError on an empty list
Rover__move_to_random_location(w, r) ==
    LET free_locations == get_free_adjacent_locations(w, w.rovers[r].location)
    IN  IF free_locations = <<>> THEN {Crash(w)}
        ELSE {Rover__move(w, r, next) : next \in ToSet(free_locations)}

\* visited_locations is only ever tested for membership: kept as a set
Rover__move_to_explore_location(w, r) ==
    LET free_locations == ToSet(get_free_adjacent_locations(w, w.rovers[r].location))
        unvisited_locations == free_locations \ w.rovers[r].visited_locations
        choices == IF unvisited_locations # {}
                      /\ w.rovers[r].battery_life >= LOW_BATTERY
                   THEN unvisited_locations ELSE free_locations
    IN  IF choices = {} THEN {Crash(w)}
        ELSE {Rover__move([w EXCEPT !.rovers[r].visited_locations = @ \cup {next}],
                          r, next) : next \in choices}

Rover__move_to_location(w, r, target_location) ==
    LET current_location == w.rovers[r].location
        dx == target_location[1] - current_location[1]
        dy == target_location[2] - current_location[2]
        new_location == <<current_location[1] + Sign(dx),
                          current_location[2] + Sign(dy)>>
    IN  IF Contains(get_free_adjacent_locations(w, current_location), new_location)
        THEN {Rover__move(w, r, new_location)}
        ELSE Rover__move_to_random_location(w, r)

Rover__move_towards_spacecraft(w, r) ==
    Rover__move_to_location(w, r, w.sc.location)

\* a pickup that leaves the battery override as it was
PickUpKeepsOverride(w, r, k) ==
    LET w1 == [w EXCEPT !.rovers[r].rock = k,
                        !.rocks[k].picked_up = TRUE]
        l  == w1.rocks[k].location
        w2 == IF Contains(w1.rovers[r].remembered_rocks, l)
              THEN [w1 EXCEPT !.rovers[r].remembered_rocks = RemoveFirst(@, l)]
              ELSE w1
    IN  Emit(w2, Event("pickup", r, k, l))

pick_up_rock(w, r, k) ==
    LET w1 == [w EXCEPT !.rovers[r].rock = k,
                        !.rocks[k].picked_up = TRUE,
                        !.rovers[r].ignore_battery = FALSE]
        l  == w1.rocks[k].location
        w2 == IF Contains(w1.rovers[r].remembered_rocks, l)
              THEN [w1 EXCEPT !.rovers[r].remembered_rocks = RemoveFirst(@, l)]
              ELSE w1
    IN  Emit(w2, Event("pickup", r, k, l))

drop_rock(w, r) ==
    LET k == w.rovers[r].rock
    IN  IF k # NoRock
        THEN [w EXCEPT !.rocks[k].location = w.rovers[r].location,
                       !.rovers[r].rock = NoRock]
        ELSE w

NeverHasRock(w, r) == FALSE

has_rock(w, r) == w.rovers[r].rock # NoRock

\* helper.share_battery_power(other_rover, mars)
share_battery_power(w, helper, other_rover) ==
    IF Contains(get_adjacent_locations(w, w.rovers[helper].location),
                w.rovers[other_rover].location)
    THEN Emit([w EXCEPT !.rovers[helper].battery_life = @ - SHARE_AMOUNT,
                        !.rovers[other_rover].battery_life = @ + SHARE_AMOUNT,
                        !.rovers[helper].request_charging = FALSE],
              Event("share", helper, other_rover, None))
    ELSE w

Rover__manage_battery(w, r) ==
    LET w1 == [w EXCEPT !.rovers[r].battery_life =
                           @ - DEFAULT_BATTERY_CONSUMPTION_PER_MOVE]
    IN  IF Contains(get_adjacent_locations(w1, w1.rovers[r].location), w1.sc.location)
           /\ w1.rovers[r].battery_life < CHARGE_REQUEST_BELOW
        THEN [w1 EXCEPT !.rovers[r].request_charging = TRUE]
        ELSE w1

\* sustain_damage without the floor at 0
SustainDamageNoFloor(w, r, amount) ==
    LET w1 == [w EXCEPT !.rovers[r].battery_life = @ - amount]
    IN  IF w1.rovers[r].battery_life <= 0
        THEN LET w2 == [w1 EXCEPT !.rovers[r].damaged = TRUE]
             IN  IF has_rock(w2, r) THEN drop_rock(w2, r) ELSE w2
        ELSE w1

\* sustain_damage that leaves the carried rock with the rover
SustainDamageKeepsRock(w, r, amount) ==
    LET w1 == [w EXCEPT !.rovers[r].battery_life = @ - amount]
    IN  IF w1.rovers[r].battery_life <= 0
        THEN [w1 EXCEPT !.rovers[r].battery_life = 0, !.rovers[r].damaged = TRUE]
        ELSE w1

sustain_damage(w, r, amount) ==
    LET w1 == [w EXCEPT !.rovers[r].battery_life = @ - amount]
    IN  IF w1.rovers[r].battery_life <= 0
        THEN LET w2 == [w1 EXCEPT !.rovers[r].battery_life = 0,
                                  !.rovers[r].damaged = TRUE]
             IN  IF has_rock(w2, r) THEN drop_rock(w2, r) ELSE w2
        ELSE w1

\* the battery <= 0 branch of act: every adjacent rover above 30 shares
RECURSIVE ShareFrom(_, _, _, _)
ShareFrom(w, r, adjacent_rovers, i) ==
    IF i > Len(adjacent_rovers) THEN w
    ELSE LET h == adjacent_rovers[i]
             w1 == IF w.rovers[h].battery_life > SHARE_MIN_HELPER
                   THEN share_battery_power(w, h, r) ELSE w
         IN  ShareFrom(w1, r, adjacent_rovers, i + 1)

RoverOutOfBatteryNoClamp(w, r) ==
    LET adj == get_adjacent_locations(w, w.rovers[r].location)
        at  == SelectSeq(adj, LAMBDA l : get_agent(w, l).kind = "rover")
        adjacent_rovers == [i \in DOMAIN at |-> get_agent(w, at[i]).id]
    IN  ShareFrom(w, r, adjacent_rovers, 1)

RoverOutOfBattery(w, r) ==
    LET w1  == [w EXCEPT !.rovers[r].battery_life = 0]
        adj == get_adjacent_locations(w1, w1.rovers[r].location)
        at  == SelectSeq(adj, LAMBDA l : get_agent(w1, l).kind = "rover")
        adjacent_rovers == [i \in DOMAIN at |-> get_agent(w1, at[i]).id]
    IN  ShareFrom(w1, r, adjacent_rovers, 1)

RoverPursueKeepsFlags(w, r) ==
    LET target == w.rovers[r].target_location
        adjacent_rocks == Rover__scan_for_rocks_in_adjacent_cells(w, r)
        hits == SelectSeq(adjacent_rocks, LAMBDA k : w.rocks[k].location = target)
        current_location == w.rovers[r].location
    IN  IF hits # <<>>
        THEN LET target_rock == hits[1]
                 w1 == Rover__move(w, r, w.rocks[target_rock].location)
                 w2 == pick_up_rock(w1, r, target_rock)
             IN  {[w2 EXCEPT !.rovers[r].target_location = None]}
        ELSE IF current_location = target
                \/ Contains(get_adjacent_locations(w, current_location), target)
             THEN Rover__move_towards_spacecraft(w, r)
             ELSE Rover__move_to_location(w, r, target)

\* the target_location branch of act
RoverPursueTarget(w, r) ==
    LET target == w.rovers[r].target_location
        adjacent_rocks == Rover__scan_for_rocks_in_adjacent_cells(w, r)
        hits == SelectSeq(adjacent_rocks, LAMBDA k : w.rocks[k].location = target)
        current_location == w.rovers[r].location
    IN  IF hits # <<>>
        THEN LET target_rock == hits[1]
                 w1 == Rover__move(w, r, w.rocks[target_rock].location)
                 w2 == pick_up_rock(w1, r, target_rock)
             IN  {[w2 EXCEPT !.rovers[r].target_location = None]}
        ELSE IF current_location = target
                \/ Contains(get_adjacent_locations(w, current_location), target)
             THEN Rover__move_towards_spacecraft(
                      [w EXCEPT !.rovers[r].target_location = None,
                                !.rovers[r].ignore_battery = FALSE], r)
             ELSE Rover__move_to_location(w, r, target)

\* the rock-delivery branch of act
RoverDeliver(w, r) ==
    LET w1 == Rover__remember_rocks(w, r)
    IN  IF ~w1.rovers[r].ignore_battery /\ w1.rovers[r].battery_life < LOW_BATTERY
        THEN Rover__move_towards_spacecraft(w1, r)
        ELSE IF Contains(get_free_adjacent_locations(w1, w1.rovers[r].location),
                         w1.sc.location)
             THEN {drop_rock(w1, r)}
             ELSE Rover__move_towards_spacecraft(w1, r)

\* the foraging branch of act with enough battery: the first adjacent rock, or
\* a step of exploration
RoverSeek(w, r) ==
    LET adjacent_rocks == Rover__scan_for_rocks_in_adjacent_cells(w, r)
    IN  IF adjacent_rocks # <<>>
        THEN LET k == adjacent_rocks[1]
             IN  {pick_up_rock(Rover__move(w, r, w.rocks[k].location), r, k)}
        ELSE Rover__move_to_explore_location(w, r)

\* foraging that never looks at the battery
RoverForageAnyBattery(w, r) == RoverSeek(w, r)

\* the foraging branch of act
RoverForage(w, r) ==
    IF ~w.rovers[r].ignore_battery /\ w.rovers[r].battery_life < LOW_BATTERY
    THEN Rover__move_towards_spacecraft(w, r)
    ELSE RoverSeek(w, r)

\* act of a rover that is not damaged
RoverWorking(w, r) ==
    IF w.rovers[r].request_charging /\ w.rovers[r].battery_life # FULL_BATTERY
    THEN {w}
    ELSE LET w1 == IF w.rovers[r].request_charging
                   THEN [w EXCEPT !.rovers[r].request_charging = FALSE] ELSE w
         IN  IF ~w1.rovers[r].ignore_battery /\ w1.rovers[r].battery_life <= 0
             THEN {RoverOutOfBattery(w1, r)}
             ELSE IF w1.rovers[r].target_location # None
             THEN RoverPursueTarget(w1, r)
             ELSE {IF x.crashed THEN x ELSE Rover__manage_battery(x, r) :
                     x \in IF has_rock(w1, r) THEN RoverDeliver(w1, r)
                           ELSE RoverForage(w1, r)}

\* act without the early return of a damaged rover
RoverActsDamaged(w, r) == RoverWorking(w, r)

Rover_act(w, r) ==
    IF w.rovers[r].damaged THEN {w} ELSE RoverWorking(w, r)

(***************************************************************************)
(* Alien (model/alien.py)                                                  *)
(***************************************************************************)
NewAlien(l, energy_life) ==
    [location |-> l, energy |-> energy_life, hibernating |-> FALSE,
     is_chasing_rover |-> FALSE, chase_moves |-> 0]

\* energy left as the subtraction gives it
NoClamp(w, a) == w

ClampEnergy(w, a) ==
    IF w.aliens[a].energy <= 0 THEN [w EXCEPT !.aliens[a].energy = 0] ELSE w

Alien__move(w, a, new_location) ==
    LET previous_location == w.aliens[a].location
        w1 == set_agent(w, AlienCell(a), new_location)
        w2 == [w1 EXCEPT !.aliens[a].location = new_location]
        w3 == set_agent(w2, NoAgent, previous_location)
        w4 == [w3 EXCEPT !.aliens[a].energy = @ - MOVE_ENERGY]
    IN  Emit(ClampEnergy(w4, a), Event("step", a, 0, previous_location))

Alien__random_move(w, a) ==
    IF w.aliens[a].hibernating THEN {w}
    ELSE LET free_locations == get_free_adjacent_locations(w, w.aliens[a].location)
         IN  IF free_locations = <<>> THEN {w}
             ELSE {ClampEnergy([Alien__move(w, a, l)
                                  EXCEPT !.aliens[a].energy = @ - MOVE_ENERGY], a)
                   : l \in ToSet(free_locations)}

Alien__attack_rover(w, a, r) ==
    IF w.aliens[a].hibernating THEN w
    ELSE LET w1 == IF w.aliens[a].energy <= HIBERNATE_BELOW
                   THEN [w EXCEPT !.aliens[a].hibernating = TRUE] ELSE w
         IN  IF ~w1.rovers[r].damaged
             THEN LET w2 == sustain_damage(w1, r, ATTACK_DAMAGE)
                      w3 == [w2 EXCEPT !.aliens[a].energy = @ - ATTACK_ENERGY]
                  IN  Emit(ClampEnergy(w3, a), Event("attack", a, r, None))
             ELSE Emit(w1, Event("attack", a, r, None))

\* returns None where the Python returns None
Alien__move_towards_adjacent(w, target_location, current_location) ==
    LET possible_new_location ==
            <<current_location[1] + Sign(target_location[1] - current_location[1]),
              current_location[2] + Sign(target_location[2] - current_location[2])>>
    IN  IF get_free_adjacent_locations(w, possible_new_location) # <<>>
           /\ possible_new_location # target_location
        THEN possible_new_location ELSE None

Alien__chase_rover(w, a, r) ==
    IF w.aliens[a].hibernating THEN w
    ELSE LET w1 == [w EXCEPT !.aliens[a].chase_moves = @ + 1]
             rover_location == w1.rovers[r].location
             self_location == w1.aliens[a].location
         IN  IF calculate_distance(rover_location, self_location) = 1
             THEN Alien__attack_rover(w1, a, r)
             ELSE LET new_location ==
                          Alien__move_towards_adjacent(w1, rover_location, self_location)
                  IN  IF new_location # None
                      THEN LET w2 == Alien__move(w1, a, new_location)
                           IN  IF w2.rovers[r].damaged
                               THEN [w2 EXCEPT !.rovers[r].location = new_location]
                               ELSE w2
                      ELSE w1

HibernateAsleep(w, a) ==
    IF w.aliens[a].hibernating
    THEN LET w1 == [w EXCEPT !.aliens[a].energy = @ + HIBERNATE_GAIN]
         IN  IF w1.aliens[a].energy >= FULL_ENERGY
             THEN [w1 EXCEPT !.aliens[a].energy = FULL_ENERGY]
             ELSE w1
    ELSE w

Alien__hibernate(w, a) ==
    IF w.aliens[a].hibernating
    THEN LET w1 == [w EXCEPT !.aliens[a].energy = @ + HIBERNATE_GAIN]
         IN  IF w1.aliens[a].energy >= FULL_ENERGY
             THEN [w1 EXCEPT !.aliens[a].energy = FULL_ENERGY,
                             !.aliens[a].hibernating = FALSE]
             ELSE w1
    ELSE w

Alien__move_to_location(w, a, target_location) ==
    LET current_location == w.aliens[a].location
        new_location ==
            <<current_location[1] + Sign(target_location[1] - current_location[1]),
              current_location[2] + Sign(target_location[2] - current_location[2])>>
    IN  IF Contains(get_free_adjacent_locations(w, current_location), new_location)
        THEN {Alien__move(w, a, new_location)}
        ELSE Alien__random_move(w, a)

\* the loop keeps the first location of strictly greatest distance, from 0
RECURSIVE FarthestFrom(_, _, _, _, _)
FarthestFrom(locs, i, spacecraft_location, max_distance, farthest_location) ==
    IF i > Len(locs) THEN farthest_location
    ELSE LET distance == calculate_distance(locs[i], spacecraft_location)
         IN  IF distance > max_distance
             THEN FarthestFrom(locs, i + 1, spacecraft_location, distance, locs[i])
             ELSE FarthestFrom(locs, i + 1, spacecraft_location, max_distance,
                               farthest_location)

Alien__avoid_spacecraft(w, a) ==
    IF w.aliens[a].hibernating THEN {w}
    ELSE LET farthest_location ==
                 FarthestFrom(get_free_adjacent_locations(w, w.aliens[a].location),
                              1, w.sc.location, 0, None)
         IN  IF farthest_location # None
             THEN Alien__move_to_location(w, a, farthest_location)
             ELSE {w}

AlienEngage(w, a, r) ==
    LET w1 == Alien__chase_rover(w, a, r)
    IN  IF w1.aliens[a].chase_moves >= MAX_CHASE_MOVES
        THEN [w1 EXCEPT !.aliens[a].is_chasing_rover = FALSE,
                        !.aliens[a].chase_moves = 0]
        ELSE w1

AlienActsAnywhere(w, a) ==
    LET current_location == w.aliens[a].location
    IN  IF w.aliens[a].hibernating THEN {Alien__hibernate(w, a)}
        ELSE LET found_rovers ==
                     {get_agent(w, l).id :
                        l \in {n \in get_adjacent_locations_upto_3_cells(w, current_location)
                                 : get_agent(w, n).kind = "rover"}}
             IN  IF found_rovers = {} THEN Alien__random_move(w, a)
                 ELSE UNION {IF ~w.rovers[r].damaged THEN {AlienEngage(w, a, r)}
                             ELSE Alien__random_move(w, a) : r \in found_rovers}

Alien_act(w, a) ==
    LET current_location == w.aliens[a].location
    IN  IF calculate_distance(w.sc.location, current_location) <= SAFE_DISTANCE
        THEN Alien__avoid_spacecraft(w, a)
        ELSE IF w.aliens[a].hibernating THEN {Alien__hibernate(w, a)}
        ELSE LET found_rovers ==
                     {get_agent(w, l).id :
                        l \in {n \in get_adjacent_locations_upto_3_cells(w, current_location)
                                 : get_agent(w, n).kind = "rover"}}
             IN  IF found_rovers = {} THEN Alien__random_move(w, a)
                 ELSE UNION {IF ~w.rovers[r].damaged THEN {AlienEngage(w, a, r)}
                             ELSE Alien__random_move(w, a) : r \in found_rovers}

(***************************************************************************)
(* Spacecraft (model/spacecraft.py)                                        *)
(***************************************************************************)
NewSpacecraft(l) ==
    [location |-> l, retrieved_rock_locations |-> <<>>, target_locations |-> <<>>,
     rovers |-> <<>>, rovers_initialized |-> FALSE]

\* the list __scan_for_rovers_in_adjacent_cells returns
FoundRovers(w) ==
    LET adj == get_adjacent_locations(w, w.sc.location)
        at  == SelectSeq(adj, LAMBDA l : get_agent(w, l).kind = "rover")
    IN  [i \in DOMAIN at |-> get_agent(w, at[i]).id]

RECURSIVE KnowFrom(_, _, _)
KnowFrom(w, found, i) ==
    IF i > Len(found) THEN w
    ELSE KnowFrom(IF Contains(w.sc.rovers, found[i]) THEN w
                  ELSE [w EXCEPT !.sc.rovers = Append(@, found[i])], found, i + 1)

\* the world __scan_for_rovers_in_adjacent_cells leaves: found rovers are known
Spacecraft__scan_for_rovers_in_adjacent_cells(w) == KnowFrom(w, FoundRovers(w), 1)

RetrieveLeavesRock(w, r) ==
    IF has_rock(w, r)
    THEN LET rock_location == w.rovers[r].location
             w1 == [w EXCEPT !.sc.retrieved_rock_locations = Append(@, rock_location)]
         IN  Emit(w1, Event("retrieve", r, 0, rock_location))
    ELSE w

Spacecraft__retrieve_rocks_from_rover(w, r) ==
    IF has_rock(w, r)
    THEN LET rock_location == w.rovers[r].location
             w1 == [w EXCEPT !.sc.retrieved_rock_locations = Append(@, rock_location)]
         IN  Emit(drop_rock(w1, r), Event("retrieve", r, 0, rock_location))
    ELSE w

RECURSIVE NearestFrom(_, _, _, _, _)
NearestFrom(locs, i, spacecraft_location, min_distance, nearest_location) ==
    IF i > Len(locs) THEN nearest_location
    ELSE LET distance == calculate_distance(spacecraft_location, locs[i])
         IN  IF min_distance < 0 \/ distance < min_distance
             THEN NearestFrom(locs, i + 1, spacecraft_location, distance, locs[i])
             ELSE NearestFrom(locs, i + 1, spacecraft_location, min_distance,
                              nearest_location)

\* min_distance starts at float('inf'), written -1 here
Spacecraft__find_nearest_rock_location(w, target_locations) ==
    NearestFrom(target_locations, 1, w.sc.location, 0 - 1, None)

\* distance / 7 rounded down
RequiredRoversFloor(distance) == distance \div TEAM_RANGE

\* math.ceil(distance / 7)
RequiredRovers(distance) == (distance + TEAM_RANGE - 1) \div TEAM_RANGE

Spacecraft__form_rover_team(w, rock_location) ==
    LET found_rovers == FoundRovers(w)
        available_rovers ==
            SelectSeq(found_rovers,
                      LAMBDA r : ~has_rock(w, r) /\ w.rovers[r].request_charging)
        distance == calculate_distance(w.sc.location, rock_location)
        required_rovers == RequiredRovers(distance)
    IN  IF Len(available_rovers) >= required_rovers
        THEN SubSeq(available_rovers, 1, required_rovers) ELSE <<>>

RECURSIVE TargetFrom(_, _, _, _)
TargetFrom(w, team, i, rock_location) ==
    IF i > Len(team) THEN w
    ELSE TargetFrom(Emit([w EXCEPT !.rovers[team[i]].target_location = rock_location],
                         Event("team", team[i], i, rock_location)),
                    team, i + 1, rock_location)

Spacecraft__instruct_rover_team(w, team, rock_location) ==
    LET w1 == [w EXCEPT !.rovers[team[1]].ignore_battery = TRUE,
                        !.rovers[team[1]].battery_life = TEAM_LEAD_BATTERY]
        w2 == [w1 EXCEPT !.rovers[team[2]].battery_life = TEAM_SECOND_BATTERY]
    IN  TargetFrom(w2, team, 1, rock_location)

\* create_new_rover that empties the log instead of taking 100 entries off it
CreateNewRoverClearingLog(w, initial_num_rovers) ==
    IF Len(w.sc.rovers) < initial_num_rovers
       /\ Len(w.sc.retrieved_rock_locations) >= SPAWN_THRESHOLD
    THEN LET w1 == [w EXCEPT !.sc.retrieved_rock_locations = <<>>]
             free_locations == get_free_adjacent_locations(w1, w1.sc.location)
         IN  IF Len(free_locations) > 0
             THEN {LET id == Len(w1.rovers) + 1
                       w2 == [w1 EXCEPT !.rovers = Append(@,
                                 NewRover(rover_location, DEFAULT_BATTERY_LIFE))]
                       w3 == set_agent(w2, RoverCell(id), rover_location)
                       w4 == [w3 EXCEPT !.sc.rovers = Append(@, id)]
                   IN  Emit(w4, Event("spawn", id, 0, rover_location))
                   : rover_location \in ToSet(free_locations)}
             ELSE {w1}
    ELSE {w}

\* Config.initial_num_rovers is config.initial_num_rovers; a new rover gets the
\* next id of the class counter, its index in rovers
create_new_rover(w, initial_num_rovers) ==
    IF Len(w.sc.rovers) < initial_num_rovers
       /\ Len(w.sc.retrieved_rock_locations) >= SPAWN_THRESHOLD
    THEN LET w1 == [w EXCEPT !.sc.retrieved_rock_locations =
                                SubSeq(@, SPAWN_TRIM + 1, Len(@))]
             free_locations == get_free_adjacent_locations(w1, w1.sc.location)
         IN  IF Len(free_locations) > 0
             THEN {LET id == Len(w1.rovers) + 1
                       w2 == [w1 EXCEPT !.rovers = Append(@,
                                 NewRover(rover_location, DEFAULT_BATTERY_LIFE))]
                       w3 == set_agent(w2, RoverCell(id), rover_location)
                       w4 == [w3 EXCEPT !.sc.rovers = Append(@, id)]
                   IN  Emit(w4, Event("spawn", id, 0, rover_location))
                   : rover_location \in ToSet(free_locations)}
             ELSE {w1}
    ELSE {w}

\* the body of the loop over found_rovers: retrieval, then charging
SpacecraftServe(w, r) ==
    LET w1 == IF has_rock(w, r) THEN Spacecraft__retrieve_rocks_from_rover(w, r)
              ELSE w
    IN  IF w1.rovers[r].request_charging
        THEN LET w2 == [w1 EXCEPT !.rovers[r].battery_life = @ + CHARGE_STEP]
                 w3 == IF w2.rovers[r].battery_life > FULL_BATTERY
                       THEN [w2 EXCEPT !.rovers[r].battery_life = FULL_BATTERY]
                       ELSE w2
                 w4 == IF w3.rovers[r].battery_life >= FULL_BATTERY
                       THEN [w3 EXCEPT !.rovers[r].request_charging = FALSE]
                       ELSE w3
             IN  Emit(w4, Event("charge", r, 0, None))
        ELSE w1

RECURSIVE ServeFrom(_, _, _)
ServeFrom(w, found, i) ==
    IF i > Len(found) THEN w
    ELSE ServeFrom(SpacecraftServe(w, found[i]), found, i + 1)

RECURSIVE RememberedOf(_, _, _)
RememberedOf(w, found, i) ==
    IF i > Len(found) THEN <<>>
    ELSE w.rovers[found[i]].remembered_rocks \o RememberedOf(w, found, i + 1)

RECURSIVE MergeFrom(_, _, _)
MergeFrom(target_locations, locs, i) ==
    IF i > Len(locs) THEN target_locations
    ELSE MergeFrom(IF Contains(target_locations, locs[i]) THEN target_locations
                   ELSE Append(target_locations, locs[i]), locs, i + 1)

RECURSIVE ClearFrom(_, _, _)
ClearFrom(w, found, i) ==
    IF i > Len(found) THEN w
    ELSE ClearFrom([w EXCEPT !.rovers[found[i]].remembered_rocks = <<>>],
                   found, i + 1)

SpacecraftDirectLast(w, found_rovers, nearest_rock_location) ==
    LET free == SelectSeq(found_rovers,
                    LAMBDA r : w.rovers[r].target_location = None
                               /\ ~has_rock(w, r) /\ ~w.rovers[r].request_charging)
    IN  IF free # <<>>
        THEN Emit([w EXCEPT !.rovers[free[Len(free)]].target_location =
                               nearest_rock_location],
                  Event("direct", free[Len(free)], 0, nearest_rock_location))
        ELSE w

\* the direct assignment: the first found rover that is free to go
SpacecraftDirect(w, found_rovers, nearest_rock_location) ==
    LET free == SelectSeq(found_rovers,
                    LAMBDA r : w.rovers[r].target_location = None
                               /\ ~has_rock(w, r) /\ ~w.rovers[r].request_charging)
    IN  IF free # <<>>
        THEN Emit([w EXCEPT !.rovers[free[1]].target_location = nearest_rock_location],
                  Event("direct", free[1], 0, nearest_rock_location))
        ELSE w

\* act from `if rover_target_locations:` on
SpacecraftDispatch(w, found_rovers) ==
    LET rover_target_locations == RememberedOf(w, found_rovers, 1)
    IN  IF rover_target_locations # <<>>
        THEN LET w1 == [w EXCEPT !.sc.target_locations =
                                    MergeFrom(@, rover_target_locations, 1)]
                 nearest_rock_location ==
                     Spacecraft__find_nearest_rock_location(w1, w1.sc.target_locations)
                 w2 == Emit(w1, Event("chosen", 0, 0, nearest_rock_location))
                 w3 == IF calculate_distance(w2.sc.location, nearest_rock_location)
                          > TEAM_RANGE
                       THEN LET team == Spacecraft__form_rover_team(w2, nearest_rock_location)
                            IN  IF Len(team) > 1
                                THEN Spacecraft__instruct_rover_team(
                                         w2, team, nearest_rock_location)
                                ELSE w2
                       ELSE SpacecraftDirect(w2, found_rovers, nearest_rock_location)
                 w4 == ClearFrom(w3, found_rovers, 1)
             IN  [w4 EXCEPT !.sc.target_locations =
                               RemoveFirst(@, nearest_rock_location)]
        ELSE w

SpacecraftAfterSpawn(w) ==
    LET found_rovers == FoundRovers(w)
        w1 == Spacecraft__scan_for_rovers_in_adjacent_cells(w)
        w2 == ServeFrom(w1, found_rovers, 1)
    IN  SpacecraftDispatch(w2, found_rovers)

Spacecraft_act(w, initial_num_rovers) ==
    LET w1 == IF ~w.sc.rovers_initialized
              THEN [Spacecraft__scan_for_rovers_in_adjacent_cells(w)
                      EXCEPT !.sc.rovers_initialized = TRUE]
              ELSE w
        spawned == IF Len(w1.sc.rovers) < initial_num_rovers
                   THEN create_new_rover(w1, initial_num_rovers) ELSE {w1}
    IN  {SpacecraftAfterSpawn(x) : x \in spawned}

(***************************************************************************)
(* The simulation: setup, and the driver's turns                           *)
(***************************************************************************)
\* Bounds of the model
GridW == 3
GridH == 6
MaxTurns == 4
LongTurns == 13
TeamH == 3
TeamNear == 9
TeamFar == 15
TeamSlack == 0
ShareTurns == 3
PairTurns == 2
SpawnTurns == 2
SpawnW == 2
SpawnH == 2
FleetSize == 2
DirectW == 4
DirectH == 2
DirectTurns == 4
MissionTurns == 20

\* Batteries and energies the setups build agents with, beside the defaults
LowBattery == LOW_BATTERY - DEFAULT_BATTERY_CONSUMPTION_PER_MOVE

LastMove == DEFAULT_BATTERY_CONSUMPTION_PER_MOVE

LowEnergy == HIBERNATE_BELOW - MOVE_ENERGY

MidEnergy == 2 * ATTACK_ENERGY
\* a battery that is not a multiple of the move cost
OddBattery == DEFAULT_BATTERY_CONSUMPTION_PER_MOVE - 2
\* a battery one move above the level at which a rover stops helping
HelperEdge == SHARE_MIN_HELPER + SHARE_AMOUNT
\* a battery one move below the level at which a rover asks for charge
MidBattery == CHARGE_REQUEST_BELOW - DEFAULT_BATTERY_CONSUMPTION_PER_MOVE
\* a battery that brings a rover back from a far rock below that level
CarrierBattery == TEAM_SECOND_BATTERY - DEFAULT_BATTERY_CONSUMPTION_PER_MOVE

Grid(width, height) == (0..(width - 1)) \X (0..(height - 1))

\* A setup: the grid, the spacecraft's cell, each rover's cell and battery_life,
\* each alien's cell and energy_life, the rocks' cells, and the configuration
SetupMars(s) ==
    [l \in Grid(s.width, s.height) |->
       IF l = s.spacecraft THEN SpacecraftCell
       ELSE IF \E i \in DOMAIN s.rovers : s.rovers[i][1] = l
       THEN RoverCell(CHOOSE i \in DOMAIN s.rovers : s.rovers[i][1] = l)
       ELSE IF \E i \in DOMAIN s.aliens : s.aliens[i][1] = l
       THEN AlienCell(CHOOSE i \in DOMAIN s.aliens : s.aliens[i][1] = l)
       ELSE IF \E i \in DOMAIN s.rocks : s.rocks[i] = l
       THEN RockCell(CHOOSE i \in DOMAIN s.rocks : s.rocks[i] = l)
       ELSE NoAgent]

Occupied(s) ==
    <<s.spacecraft>> \o [i \in DOMAIN s.rovers |-> s.rovers[i][1]]
      \o [i \in DOMAIN s.aliens |-> s.aliens[i][1]] \o s.rocks

WellFormed(s) ==
    /\ ToSet(Occupied(s)) \subseteq Grid(s.width, s.height)
    /\ \A i, j \in DOMAIN Occupied(s) : i # j => Occupied(s)[i] # Occupied(s)[j]

InitFrom(s) ==
    /\ WellFormed(s)
    /\ mars = SetupMars(s)
    /\ rovers = [i \in DOMAIN s.rovers |-> NewRover(s.rovers[i][1], s.rovers[i][2])]
    /\ aliens = [i \in DOMAIN s.aliens |-> NewAlien(s.aliens[i][1], s.aliens[i][2])]
    /\ rocks = [i \in DOMAIN s.rocks |-> [location |-> s.rocks[i], picked_up |-> FALSE]]
    /\ sc = [NewSpacecraft(s.spacecraft) EXCEPT !.retrieved_rock_locations = s.retrieved]
    /\ config = [initial_num_rovers |-> s.initial_num_rovers, max_turns |-> s.max_turns]
    /\ crashed = FALSE
    /\ ev = {}
    /\ turn = 0
    /\ acted = {}

World ==
    [mars |-> mars, rovers |-> rovers, rocks |-> rocks, aliens |-> aliens,
     sc |-> sc, crashed |-> crashed, ev |-> {}]

Agents(w) ==
    {<<"rover", r>> : r \in DOMAIN w.rovers}
      \cup {<<"alien", a>> : a \in DOMAIN w.aliens} \cup {<<"spacecraft", 0>>}

\* one agent's act() in the driver's loop: every agent acts once per turn
\* config.max_turns of a simulation that is left running
Forever == 0 - 1

Acts(me, w) ==
    /\ mars' = w.mars
    /\ rovers' = w.rovers
    /\ rocks' = w.rocks
    /\ aliens' = w.aliens
    /\ sc' = w.sc
    /\ crashed' = w.crashed
    /\ ev' = w.ev \cup {Event(me[1], me[2], 0, None)}
    /\ config' = config
    /\ IF Agents(w) \subseteq acted \cup {me}
       THEN acted' = {} /\ turn' = IF config.max_turns = Forever THEN turn
                                    ELSE turn + 1
       ELSE acted' = acted \cup {me} /\ turn' = turn

MayAct(me) ==
    /\ ~crashed
    /\ config.max_turns = Forever \/ turn < config.max_turns
    /\ me \notin acted

RoverAct(r) ==
    /\ MayAct(<<"rover", r>>)
    /\ \E w \in Rover_act(World, r) : Acts(<<"rover", r>>, w)

AlienAct(a) ==
    /\ MayAct(<<"alien", a>>)
    /\ \E w \in Alien_act(World, a) : Acts(<<"alien", a>>, w)

SpacecraftAct ==
    /\ MayAct(<<"spacecraft", 0>>)
    /\ \E w \in Spacecraft_act(World, config.initial_num_rovers) :
           Acts(<<"spacecraft", 0>>, w)

Next ==
    \/ \E r \in DOMAIN rovers : RoverAct(r)
    \/ \E a \in DOMAIN aliens : AlienAct(a)
    \/ SpacecraftAct

\* Setups with an alien and one rover: the rover five cells from the spacecraft
\* with a rock beside it, and the alien either behind that rock or in the far
\* corner of the spacecraft's row, with a rock on the next cell out.
LoneSetups ==
    {[width |-> GridW, height |-> GridH, spacecraft |-> <<0, GridH - 1>>,
      rovers |-> << <<<<0, GridH - 6>>, b1>> >>,
      aliens |-> << <<a, e>> >>,
      rocks |-> << <<1, GridH - 6>>, <<1, GridH - 4>>, <<GridW - 1, GridH - 2>> >>,
      retrieved |-> <<>>, initial_num_rovers |-> FleetSize,
      max_turns |-> IF b1 = LowBattery /\ e = LowEnergy THEN LongTurns ELSE MaxTurns]
     : b1 \in {DEFAULT_BATTERY_LIFE, LOW_BATTERY, LowBattery},
       a \in {<<2, GridH - 6>>, <<GridW - 1, GridH - 1>>},
       e \in {DEFAULT_ENERGY_LIFE, MidEnergy, LowEnergy}}

\* Setups with an alien and two rovers: the alien beside a rover with low
\* battery, and a rover with the default battery next to that one.
PairSetups ==
    {[width |-> GridW, height |-> GridH, spacecraft |-> <<0, GridH - 1>>,
      rovers |-> << <<<<0, GridH - 6>>, LowBattery>>,
                    <<<<0, GridH - 5>>, DEFAULT_BATTERY_LIFE>> >>,
      aliens |-> << <<<<1, GridH - 6>>, DEFAULT_ENERGY_LIFE>> >>,
      rocks |-> << >>,
      retrieved |-> <<>>, initial_num_rovers |-> FleetSize, max_turns |-> PairTurns]}

\* Setups with no free cell: a rover with low battery in a corner behind three
\* rocks, and the alien in the next corner behind the same rocks and one more.
BoxedSetups ==
    {[width |-> GridW, height |-> GridH, spacecraft |-> <<0, GridH - 1>>,
      rovers |-> << <<<<0, GridH - 6>>, LowBattery>> >>,
      aliens |-> << <<<<2, GridH - 6>>, DEFAULT_ENERGY_LIFE>> >>,
      rocks |-> << <<1, GridH - 6>>, <<0, GridH - 5>>, <<1, GridH - 5>>,
                   <<2, GridH - 5>> >>,
      retrieved |-> <<>>, initial_num_rovers |-> FleetSize, max_turns |-> PairTurns]}

AlienSetups == LoneSetups \cup PairSetups \cup BoxedSetups

InitAlien == \E s \in AlienSetups : InitFrom(s)

SpecAlien == InitAlien /\ [][Next]_vars

\* Setups for a team: a corridor with the spacecraft in one corner and two rocks
\* at the far end, `far` cells from the spacecraft; a rover beside the rocks that
\* carries one home and remembers the other; one or two rovers with low battery
\* one step from the spacecraft, which wait beside it from their first move.
TeamSetups ==
    {[width |-> far, height |-> TeamH, spacecraft |-> <<0, 0>>,
      rovers |-> << <<<<far - 2, 0>>, DEFAULT_BATTERY_LIFE>> >>
                   \o SubSeq(<< <<<<0, 2>>, LowBattery>>, <<<<2, 2>>, LowBattery>> >>,
                             1, waiting),
      aliens |-> << >>,
      rocks |-> << <<far - 1, 0>>, <<far - 1, 1>> >>,
      retrieved |-> <<>>, initial_num_rovers |-> FleetSize,
      max_turns |-> far + TeamSlack]
     : far \in {TeamNear, TeamFar}, waiting \in {1, 2}}

\* Setups for a whole team mission: as above, but the rover that brings the
\* first rock comes back below 50 and waits too, and the run lasts until the
\* team has reached the far rock.
MissionSetups ==
    {[width |-> TeamNear, height |-> TeamH, spacecraft |-> <<0, 0>>,
      rovers |-> << <<<<TeamNear - 2, 0>>, CarrierBattery>>,
                    <<<<0, 2>>, LowBattery>> >>,
      aliens |-> << >>,
      rocks |-> << <<TeamNear - 1, 0>>, <<TeamNear - 1, 1>> >>,
      retrieved |-> <<>>, initial_num_rovers |-> FleetSize,
      max_turns |-> MissionTurns]}

\* Setups for sharing: a rover with one move's worth of battery, or less, next
\* to a rover with the default battery or with just enough to help once.
ShareSetups ==
    {[width |-> GridW, height |-> GridH, spacecraft |-> <<0, GridH - 1>>,
      rovers |-> << <<<<0, GridH - 6>>, drained>>,
                    <<<<1, GridH - 6>>, helper>> >>,
      aliens |-> << >>,
      rocks |-> << >>,
      retrieved |-> <<>>, initial_num_rovers |-> FleetSize, max_turns |-> ShareTurns]
     : drained \in {LastMove, OddBattery}, helper \in {DEFAULT_BATTERY_LIFE, HelperEdge}}

\* Setups where the helper waits for charge: a rover that reaches the spacecraft
\* below 50, and a rover that runs out of battery two cells from the spacecraft.
WaitingSetups ==
    {[width |-> GridW, height |-> GridH, spacecraft |-> <<0, GridH - 1>>,
      rovers |-> << <<<<1, GridH - 4>>, LastMove>>,
                    <<<<1, GridH - 3>>, MidBattery>> >>,
      aliens |-> << >>,
      rocks |-> << >>,
      retrieved |-> <<>>, initial_num_rovers |-> FleetSize, max_turns |-> ShareTurns]}

\* Setups for a spawn: a small grid where the spacecraft's log holds 99, 100 or
\* 200 retrievals made on the cell beside it, and a rover is about to bring one
\* more rock. A second rock may lie on the last cell beside the spacecraft.
SpawnSetups ==
    {[width |-> SpawnW, height |-> SpawnH, spacecraft |-> <<0, SpawnH - 1>>,
      rovers |-> << <<<<1, SpawnH - 2>>, DEFAULT_BATTERY_LIFE>> >>,
      aliens |-> << >>,
      rocks |-> << <<1, SpawnH - 1>> >> \o more,
      retrieved |-> [i \in 1..n |-> <<1, SpawnH - 1>>],
      initial_num_rovers |-> FleetSize, max_turns |-> SpawnTurns]
     : n \in {SPAWN_THRESHOLD - 1, SPAWN_THRESHOLD, 2 * SPAWN_THRESHOLD},
       more \in {<< >>, << <<0, SpawnH - 2>> >>}}

\* Setups for a direct assignment: two rovers beside the spacecraft and three
\* rocks within reach, two of them seen from the cell of the third.
DirectSetups ==
    {[width |-> DirectW, height |-> DirectH, spacecraft |-> <<0, 0>>,
      rovers |-> << <<<<1, 0>>, DEFAULT_BATTERY_LIFE>>,
                    <<<<0, 1>>, second>> >>,
      aliens |-> << >>,
      rocks |-> << <<2, 0>>, <<2, 1>>, <<3, 1>> >>,
      retrieved |-> <<>>, initial_num_rovers |-> FleetSize, max_turns |-> DirectTurns]
     : second \in {DEFAULT_BATTERY_LIFE, MidBattery}}

\* Setups left running for a hibernation: a rover that runs out of battery
\* after one move, and an alien two cells away with little energy.
HibernateSetups ==
    {[width |-> GridW, height |-> GridH, spacecraft |-> <<0, GridH - 1>>,
      rovers |-> << <<<<0, GridH - 6>>, LastMove>> >>,
      aliens |-> << <<<<2, GridH - 6>>, e>> >>,
      rocks |-> << >>,
      retrieved |-> <<>>, initial_num_rovers |-> FleetSize, max_turns |-> Forever]
     : e \in {LowEnergy, MidEnergy}}

\* Setups for an alien near the spacecraft: a rover with low battery beside the
\* spacecraft and an alien next to it, three cells from the spacecraft.
GuardSetups ==
    {[width |-> GridW, height |-> GridH, spacecraft |-> <<0, GridH - 1>>,
      rovers |-> << <<<<1, GridH - 2>>, LowBattery>> >>,
      aliens |-> << <<<<2, GridH - 2>>, DEFAULT_ENERGY_LIFE>> >>,
      rocks |-> << >>,
      retrieved |-> <<>>, initial_num_rovers |-> FleetSize, max_turns |-> PairTurns]}

\* the driver's loop where no alien was placed
NextFleet ==
    \/ \E r \in DOMAIN rovers : RoverAct(r)
    \/ SpacecraftAct

InitTeam == \E s \in TeamSetups \cup MissionSetups : InitFrom(s)
InitDirect == \E s \in DirectSetups : InitFrom(s)
SpecDirect == InitDirect /\ [][NextFleet]_vars
InitHibernate == \E s \in HibernateSetups : InitFrom(s)
\* the driver activates every agent on every turn, for as long as it runs
SpecHibernate == InitHibernate /\ [][Next]_vars /\ WF_vars(Next)
InitGuard == \E s \in GuardSetups \cup PairSetups : InitFrom(s)
SpecGuard == InitGuard /\ [][Next]_vars
\* every setup that starts with an empty log of retrieved rocks
InitRocks ==
    \E s \in AlienSetups \cup TeamSetups \cup ShareSetups \cup WaitingSetups
                    \cup DirectSetups \cup GuardSetups \cup MissionSetups :
        s.retrieved = <<>> /\ InitFrom(s)
SpecRocks == InitRocks /\ [][Next]_vars
InitShare == \E s \in ShareSetups \cup WaitingSetups : InitFrom(s)
SpecShare == InitShare /\ [][NextFleet]_vars
\* the same simulations, every agent activated on every turn until the driver
\* stops
SpecCharge == InitShare /\ [][NextFleet]_vars /\ WF_vars(NextFleet)

SpecTeam == InitTeam /\ [][NextFleet]_vars

InitSpawn == \E s \in SpawnSetups : InitFrom(s)

SpecSpawn == InitSpawn /\ [][NextFleet]_vars

Init ==
    \E s \in AlienSetups \cup TeamSetups \cup ShareSetups \cup WaitingSetups
                    \cup DirectSetups \cup GuardSetups \cup MissionSetups
                    \cup SpawnSetups : InitFrom(s)

Spec == Init /\ [][Next]_vars

(***************************************************************************)
(* Claims                                                                  *)
(***************************************************************************)
Acted(kind, id) == Event(kind, id, 0, None) \in ev'

Max0(n) == IF n > 0 THEN n ELSE 0

Beside(l1, l2) == l1 # l2 /\ Abs(l1[1] - l2[1]) <= 1 /\ Abs(l1[2] - l2[2]) <= 1

Of(type) == {e \in ev : e.type = type}

\* C1: every rover built with a battery that the move cost of 5 divides, the
\* default 100 among them, has 0 <= battery_life <= 100 after every turn of any
\* agent
C1_BatteryInRange ==
    \A r \in DOMAIN rovers :
        ( /\ rovers[r].built_battery % 5 = 0
          /\ rovers[r].built_battery <= 100 ) =>
            0 <= rovers[r].battery_life /\ rovers[r].battery_life <= 100

\* a rover built with the default battery came home with less than 50, was
\* charged, and has just been given 90 as the second member of a team
C1_Witness ==
    \E e \in Of("team") :
        /\ e.b = 2
        /\ rovers[e.a].built_battery = DEFAULT_BATTERY_LIFE
        /\ rovers[e.a].battery_life = TEAM_SECOND_BATTERY
        /\ rovers[e.a].request_charging

\* C2: every alien's energy stays within 0..100 after every turn of any agent
C2_EnergyInRange ==
    \A a \in DOMAIN aliens : 0 <= aliens[a].energy /\ aliens[a].energy <= FULL_ENERGY

\* an attack drove the energy to the floor, and a hibernation ran up to the cap
C2_Witness ==
    \E a \in DOMAIN aliens :
        /\ aliens[a].energy = FULL_ENERGY
        /\ ~aliens[a].hibernating
        /\ Event("alien", a, 0, None) \in ev
        /\ \E r \in DOMAIN rovers : rovers[r].damaged

\* C3: once a rover is damaged, no step of any agent changes its location or
\* its battery_life, and it stays damaged
C3_DamagedFrozen ==
    [][\A r \in DOMAIN rovers :
          rovers[r].damaged =>
              /\ rovers'[r].damaged
              /\ rovers'[r].location = rovers[r].location
              /\ rovers'[r].battery_life = rovers[r].battery_life]_vars

\* a damaged rover whose own turn has just passed
C3_Witness ==
    \E r \in DOMAIN rovers :
        rovers[r].damaged /\ Event("rover", r, 0, None) \in ev

\* C4: an alien that starts its turn within distance 4 of the spacecraft ends it
\* strictly farther away, or stays where it is when no free adjacent cell is
\* farther
C4_AlienFlees ==
    [][\A a \in DOMAIN aliens :
          LET here == aliens[a].location
              d == calculate_distance(here, sc.location)
              free == ToSet(get_free_adjacent_locations(World, here))
          IN  (Acted("alien", a) /\ d <= SAFE_DISTANCE) =>
                  \/ calculate_distance(aliens'[a].location, sc.location) > d
                  \/ /\ aliens'[a].location = here
                     /\ \A l \in free : calculate_distance(l, sc.location) <= d]_vars

\* C5: when the spacecraft's chosen rock is at distance d > 7, a team is sent
\* exactly when at least ceil(d/7) rovers beside the spacecraft carry no rock and
\* request charging; the team has exactly ceil(d/7) of them and each member's
\* target_location is the chosen rock; otherwise no target_location changes.
\* No team is sent for a rock within distance 7.
C5_TeamDispatch ==
    [][\A c \in Of("chosen")' :
          LET d == calculate_distance(sc.location, c.loc)
              need == CHOOSE n \in 0..d : 7 * (n - 1) < d /\ d <= 7 * n
              eligible == {r \in DOMAIN rovers' :
                             /\ Beside(rovers'[r].location, sc.location)
                             /\ rovers'[r].rock = NoRock
                             /\ rovers'[r].request_charging}
              team == {e.a : e \in Of("team")'}
          IN  IF d > 7 /\ Cardinality(eligible) >= need
              THEN /\ Cardinality(team) = need
                   /\ team \subseteq eligible
                   /\ \A r \in team : rovers'[r].target_location = c.loc
                   /\ \A r \in DOMAIN rovers \ team :
                          rovers'[r].target_location = rovers[r].target_location
              ELSE /\ team = {}
                   /\ d > 7 => \A r \in DOMAIN rovers :
                          rovers'[r].target_location = rovers[r].target_location]_vars

\* a rock at distance TeamFar, beyond two ranges of 7, and a team of three sent
\* for it
C5_Witness ==
    \E c \in Of("chosen") :
        /\ calculate_distance(sc.location, c.loc) = TeamFar
        /\ Cardinality(Of("team")) = 3
        /\ \A e \in Of("team") : rovers[e.a].target_location = c.loc

\* C6: a rover is placed only on a spacecraft turn that begins with fewer known
\* rovers than config.initial_num_rovers (the rovers beside it count from its
\* first turn on) and a log of at least 100 entries; the spawn takes exactly 100
\* entries off the log, to which that turn's retrievals are then appended
C6_SpawnNeedsLog ==
    [][\A e \in Of("spawn")' :
          LET beside == {r \in DOMAIN rovers : Beside(rovers[r].location, sc.location)}
              known == ToSet(sc.rovers)
                         \cup (IF sc.rovers_initialized THEN {} ELSE beside)
          IN  /\ Cardinality(known) < config.initial_num_rovers
              /\ Len(sc.retrieved_rock_locations) >= 100
              /\ Len(sc'.retrieved_rock_locations)
                   = Len(sc.retrieved_rock_locations) - 100
                       + Cardinality(Of("retrieve")')
              /\ Cardinality(Of("spawn")') = 1
              /\ rovers'[e.a].location = e.loc
              /\ mars[e.loc] = NoAgent]_vars

\* a spawn on a log of exactly 100 entries, on the turn a rover's rock was
\* retrieved: one entry is left
C6_Witness ==
    /\ Of("spawn") # {}
    /\ Of("retrieve") # {}
    /\ Len(sc.retrieved_rock_locations) = 1

\* C7: an attack on a non-damaged rover takes exactly 25 from its battery,
\* floored at 0, and at 0 the rover is damaged and carries nothing; an attack on
\* a damaged rover leaves the rover as it was
C7_AttackDamage ==
    [][\A e \in Of("attack")' :
          LET r == e.b
              left == rovers[r].battery_life - ATTACK_DAMAGE
          IN  IF ~rovers[r].damaged
              THEN /\ rovers'[r].battery_life = Max0(left)
                   /\ rovers'[r].damaged = (left <= 0)
                   /\ left <= 0 => rovers'[r].rock = NoRock
                   /\ left > 0 => rovers'[r].rock = rovers[r].rock
              ELSE rovers'[r] = rovers[r]]_vars

\* an attack has just damaged a rover, which dropped the rock it carried
C7_Witness ==
    \E e \in Of("attack") :
        /\ rovers[e.b].damaged
        /\ rovers[e.b].battery_life = 0
        /\ rovers[e.b].rock = NoRock
        /\ \E k \in DOMAIN rocks :
               rocks[k].picked_up /\ rocks[k].location = rovers[e.b].location

\* C8: an attack on a non-damaged rover costs the alien exactly 20 energy,
\* floored at 0, and an alien left with 20 or less is hibernating
C8_AttackCost ==
    [][\A e \in Of("attack")' :
          ~rovers[e.b].damaged =>
              /\ aliens'[e.a].energy = Max0(aliens[e.a].energy - ATTACK_ENERGY)
              /\ aliens'[e.a].energy <= HIBERNATE_BELOW => aliens'[e.a].hibernating]_vars

\* C9: a working rover with no target and 0 < battery_life < 30 picks nothing up
\* on its turn and steps to the cell in the per-axis direction of the spacecraft
\* whenever that cell is free
C9_LowBatteryHeadsHome ==
    [][\A r \in DOMAIN rovers :
          LET here == rovers[r].location
              step == <<here[1] + Sign(sc.location[1] - here[1]),
                        here[2] + Sign(sc.location[2] - here[2])>>
          IN  ( /\ Acted("rover", r)
                /\ ~rovers[r].damaged
                /\ ~rovers[r].request_charging
                /\ rovers[r].target_location = None
                /\ ~rovers[r].ignore_battery
                /\ 0 < rovers[r].battery_life
                /\ rovers[r].battery_life < LOW_BATTERY ) =>
                  /\ rovers'[r].rock = rovers[r].rock
                  /\ \A e \in ev' : e.type # "pickup"
                  /\ (step \in DOMAIN mars /\ mars[step] = NoAgent) =>
                         rovers'[r].location = step]_vars

\* the rover built five cells below the spacecraft with battery 25 has stepped
\* one cell toward it and left the rock beside its first cell on the ground
C9_Witness ==
    /\ Event("rover", 1, 0, None) \in ev
    /\ rovers[1].built_battery < LOW_BATTERY
    /\ rovers[1].location = <<0, GridH - 5>>
    /\ rovers[1].rock = NoRock
    /\ mars[<<1, GridH - 6>>] = RockCell(1)
    /\ turn = 0

\* C11: a rover with battery that is not waiting and picks nothing up on its
\* turn, and an alien on its turn, that has no free adjacent cell ends the turn
\* where it was, and the turn raises no error
C11_NoFreeCellSkips ==
    [][/\ \A r \in DOMAIN rovers :
              ( /\ Acted("rover", r)
                /\ ~rovers[r].damaged
                /\ ~rovers[r].request_charging
                /\ rovers[r].battery_life > 0
                /\ Of("pickup")' = {}
                /\ get_free_adjacent_locations(World, rovers[r].location) = <<>> ) =>
                  ~crashed' /\ rovers'[r].location = rovers[r].location
       /\ \A a \in DOMAIN aliens :
              ( /\ Acted("alien", a)
                /\ get_free_adjacent_locations(World, aliens[a].location) = <<>> ) =>
                  ~crashed' /\ aliens'[a].location = aliens[a].location]_vars

\* C13: an alien turn that moves the alien by one cell (a chase step, a step
\* away from the spacecraft or a random roam) lowers its energy by exactly 5,
\* floored at 0
C13_StepCostsFive ==
    [][\A a \in DOMAIN aliens :
          (Acted("alien", a) /\ aliens'[a].location # aliens[a].location) =>
              aliens'[a].energy = Max0(aliens[a].energy - MOVE_ENERGY)]_vars

\* C18: an alien that starts its turn farther than 4 from the spacecraft, not
\* hibernating, with a non-damaged rover within Manhattan distance 3, engages
\* such a rover: it attacks it when it is at distance 1, and otherwise takes
\* the step toward it when that cell is free, or else moves somewhere unless it
\* has no free adjacent cell
InRange(a) ==
    {r \in DOMAIN rovers :
        /\ ~rovers[r].damaged
        /\ calculate_distance(rovers[r].location, aliens[a].location) <= DETECT_RADIUS}

StepToward(from, to) ==
    <<from[1] + Sign(to[1] - from[1]), from[2] + Sign(to[2] - from[2])>>

C18_AlienEngages ==
    [][\A a \in DOMAIN aliens :
          ( /\ Acted("alien", a)
            /\ calculate_distance(sc.location, aliens[a].location) > SAFE_DISTANCE
            /\ ~aliens[a].hibernating
            /\ InRange(a) # {} ) =>
              \E r \in InRange(a) :
                  LET from == aliens[a].location
                      step == StepToward(from, rovers[r].location)
                  IN  IF calculate_distance(rovers[r].location, from) = 1
                      THEN Event("attack", a, r, None) \in ev'
                      ELSE IF get_agent(World, step) = NoAgent
                      THEN aliens'[a].location = step
                      ELSE \/ aliens'[a].location # from
                           \/ get_free_adjacent_locations(World, from) = <<>>]_vars

\* C14: while a non-damaged rover's request_charging is set the rover does not
\* change location, and the flag is cleared only into a state where its
\* battery_life is 100, whichever agent acts
C14_WaitsUntilFull ==
    [][\A r \in DOMAIN rovers :
          (~rovers[r].damaged /\ rovers[r].request_charging) =>
              /\ rovers'[r].location = rovers[r].location
              /\ ~rovers'[r].request_charging =>
                     rovers'[r].battery_life = FULL_BATTERY]_vars

Stalled(r) ==
    /\ Acted("rover", r)
    /\ ~rovers[r].damaged
    /\ ~rovers[r].request_charging
    /\ ~rovers[r].ignore_battery
    /\ rovers[r].battery_life <= 0

Neighbours(r) ==
    {h \in DOMAIN rovers : Beside(rovers[h].location, rovers[r].location)}

Helpers(r) == {h \in Neighbours(r) : rovers[h].battery_life > SHARE_MIN_HELPER}

RECURSIVE TotalBattery(_, _)
TotalBattery(rs, i) ==
    IF i > Len(rs) THEN 0 ELSE rs[i].battery_life + TotalBattery(rs, i + 1)

C16_NearestDispatched ==
    [][Acted("spacecraft", 0) =>
          LET beside == {r \in DOMAIN rovers : Beside(rovers[r].location, sc.location)}
              candidates == ToSet(sc.target_locations)
                              \cup UNION {ToSet(rovers[r].remembered_rocks) : r \in beside}
          IN  candidates # {} =>
                  \E c \in Of("chosen")' :
                      /\ c.loc \in candidates
                      /\ \A l \in candidates :
                             calculate_distance(sc.location, c.loc)
                               <= calculate_distance(sc.location, l)
                      /\ ~Contains(sc'.target_locations, c.loc)]_vars

\* the place of a cell beside the spacecraft in the spacecraft's scan
ScanIndex(l) ==
    CHOOSE i \in DOMAIN AdjOffsets :
        l = <<sc.location[1] + AdjOffsets[i][1], sc.location[2] + AdjOffsets[i][2]>>

PreTarget(r) == IF r \in DOMAIN rovers THEN rovers[r].target_location ELSE None

\* C17: when the spacecraft's chosen rock is within distance 7, the turn sets
\* target_location on at most one rover: the first rover beside the spacecraft,
\* in scan order, that had no target, holds no rock after retrieval and does
\* not request charging gets the chosen rock; every other rover keeps its
\* target_location
C17_DirectsFirstFree ==
    [][\A c \in Of("chosen")' :
          calculate_distance(sc.location, c.loc) <= TEAM_RANGE =>
              LET free == {r \in DOMAIN rovers' :
                             /\ Beside(rovers'[r].location, sc.location)
                             /\ PreTarget(r) = None
                             /\ rovers'[r].rock = NoRock
                             /\ ~rovers'[r].request_charging}
                  directed == {r \in DOMAIN rovers' :
                                 rovers'[r].target_location # PreTarget(r)}
              IN  IF free = {} THEN directed = {}
                  ELSE \E r \in free :
                          /\ \A q \in free : ScanIndex(rovers'[r].location)
                                                <= ScanIndex(rovers'[q].location)
                          /\ directed = {r}
                          /\ rovers'[r].target_location = c.loc]_vars

\* a rover was directed while a later rover in the scan was free to go too
C17_Witness ==
    \E e \in Of("direct") :
        /\ rovers[e.a].target_location = e.loc
        /\ \E q \in DOMAIN rovers \ {e.a} :
               /\ Beside(rovers[q].location, sc.location)
               /\ rovers[q].target_location = None
               /\ rovers[q].rock = NoRock
               /\ ~rovers[q].request_charging
               /\ ScanIndex(rovers[q].location) > ScanIndex(rovers[e.a].location)

\* C12: a pick-up is never made by a rover that already carries a rock, be it
\* foraging or just sent to a target: every turn picks up at most one rock per
\* rover, the rover carried none before it and carries that rock after it, and
\* no rock is carried by two rovers
C12_OneRockPerRover ==
    [][/\ \A e \in Of("pickup")' :
              /\ rovers[e.a].rock = NoRock
              /\ rovers'[e.a].rock = e.b
              /\ \A f \in Of("pickup")' : f.a = e.a => f = e
       /\ \A r, q \in DOMAIN rovers' :
              (r # q /\ rovers'[r].rock # NoRock) =>
                  rovers'[r].rock # rovers'[q].rock]_vars

\* two rovers carry a rock each, one of them picked up on this turn
C12_Witness ==
    \E e \in Of("pickup") :
        /\ rovers[e.a].rock = e.b
        /\ rocks[e.b].picked_up
        /\ \E q \in DOMAIN rovers \ {e.a} : rovers[q].rock \notin {NoRock, e.b}

\* C19: every alien that enters hibernation eventually leaves it; a turn of a
\* hibernating alien leaves its location and every rover's battery and damage
\* unchanged, raises its energy by 10, capped at 100, and clears the flag
\* exactly when the energy reaches 100; no other agent's turn changes a
\* hibernating alien
C19_HibernationEnds ==
    /\ \A a \in 1..1 :
           (a \in DOMAIN aliens /\ aliens[a].hibernating)
               ~> (a \in DOMAIN aliens /\ ~aliens[a].hibernating)
    /\ [][\A a \in DOMAIN aliens :
              aliens[a].hibernating =>
                  IF Acted("alien", a)
                  THEN /\ aliens'[a].location = aliens[a].location
                       /\ \A r \in DOMAIN rovers :
                              /\ rovers'[r].battery_life = rovers[r].battery_life
                              /\ rovers'[r].damaged = rovers[r].damaged
                       /\ Of("attack")' = {}
                       /\ aliens'[a].energy =
                              IF aliens[a].energy + HIBERNATE_GAIN >= FULL_ENERGY
                              THEN FULL_ENERGY
                              ELSE aliens[a].energy + HIBERNATE_GAIN
                       /\ aliens'[a].hibernating = (aliens'[a].energy < FULL_ENERGY)
                  ELSE aliens'[a] = aliens[a]]_vars

\* an alien that hibernated from energy 0 has just reached energy 100 and is
\* awake again, on its own turn
C19_Witness ==
    \E a \in DOMAIN aliens :
        /\ Event("alien", a, 0, None) \in ev
        /\ aliens[a].energy = FULL_ENERGY
        /\ ~aliens[a].hibernating
        /\ \E r \in DOMAIN rovers : rovers[r].damaged

\* the driver still activates the agents
Running ==
    /\ ~crashed
    /\ config.max_turns = Forever \/ turn < config.max_turns

\* C15: as long as the spacecraft and the rovers keep being activated, every
\* rover that has raised request_charging eventually has battery_life 100 with
\* the flag cleared; while it waits each spacecraft turn adds 5 to its battery,
\* capped at 100, and it goes back to acting (the flag is cleared) only with
\* battery_life 100
C15_ChargedThenResumes ==
    /\ \A r \in 1..FleetSize :
           (Running /\ r \in DOMAIN rovers /\ rovers[r].request_charging)
               ~> \/ ~Running
                  \/ /\ r \in DOMAIN rovers
                     /\ rovers[r].battery_life = FULL_BATTERY
                     /\ ~rovers[r].request_charging
    /\ [][\A r \in DOMAIN rovers :
              (rovers[r].request_charging /\ ~rovers[r].damaged) =>
                  /\ ( /\ Acted("spacecraft", 0)
                       /\ Beside(rovers[r].location, sc.location) ) =>
                         rovers'[r].battery_life =
                             IF rovers[r].battery_life + CHARGE_STEP > FULL_BATTERY
                             THEN FULL_BATTERY
                             ELSE rovers[r].battery_life + CHARGE_STEP
                  /\ ~rovers'[r].request_charging =>
                         rovers'[r].battery_life = FULL_BATTERY]_vars

\* a rover whose act reaches the target_location branch
Pursuing(r) ==
    /\ Acted("rover", r)
    /\ ~rovers[r].damaged
    /\ rovers[r].request_charging => rovers[r].battery_life = FULL_BATTERY
    /\ rovers[r].ignore_battery \/ rovers[r].battery_life > 0
    /\ rovers[r].target_location # None

\* the rover ends its turn on the step from its cell toward `to` when that cell
\* is free, and on some free adjacent cell otherwise
Stepped(r, to) ==
    LET from == rovers[r].location
        step == StepToward(from, to)
        free == ToSet(get_free_adjacent_locations(World, from))
    IN  IF step \in free THEN rovers'[r].location = step
        ELSE free # {} => rovers'[r].location \in free

\* C21: a rover acting with target_location set does one of three things: with
\* a rock lying at the target in an adjacent cell it ends the turn on that cell
\* carrying that rock, target cleared; with no such rock and the target at or
\* beside its cell it clears target_location and ignore_battery and steps
\* toward the spacecraft; otherwise it steps toward the target and keeps it.
\* Its battery_life is unchanged by the turn, and in the last two cases so is
\* the rock it holds
C21_TargetBranch ==
    [][\A r \in DOMAIN rovers :
          Pursuing(r) =>
              LET target == rovers[r].target_location
                  here == rovers[r].location
                  found == /\ Beside(target, here)
                           /\ get_agent(World, target).kind = "rock"
                           /\ rocks[get_agent(World, target).id].location = target
              IN  /\ rovers'[r].battery_life = rovers[r].battery_life
                  /\ IF found
                     THEN /\ rovers'[r].location = target
                          /\ rovers'[r].rock = get_agent(World, target).id
                          /\ rovers'[r].target_location = None
                     ELSE IF here = target \/ Beside(target, here)
                     THEN /\ rovers'[r].target_location = None
                          /\ ~rovers'[r].ignore_battery
                          /\ rovers'[r].rock = rovers[r].rock
                          /\ Stepped(r, sc.location)
                     ELSE /\ rovers'[r].target_location = target
                          /\ rovers'[r].rock = rovers[r].rock
                          /\ Stepped(r, target)]_vars

\* the leader of a team, on its way to a far rock with its battery checks
\* off: it has just moved and its battery is still the 100 it was sent with
C21_Witness ==
    \E r \in DOMAIN rovers :
        /\ Event("rover", r, 0, None) \in ev
        /\ rovers[r].target_location # None
        /\ rovers[r].ignore_battery
        /\ rovers[r].battery_life = TEAM_LEAD_BATTERY
        /\ ~Beside(rovers[r].location, sc.location)
        /\ rovers[r].location # sc.location

\* the rovers beside the spacecraft that carry a rock
Carriers ==
    {r \in DOMAIN rovers :
        Beside(rovers[r].location, sc.location) /\ rovers[r].rock # NoRock}

\* the entries the spacecraft's turn takes off the front of its log: 100 when
\* it knows fewer rovers than config.initial_num_rovers and the log holds 100
Trimmed ==
    LET beside == {r \in DOMAIN rovers : Beside(rovers[r].location, sc.location)}
        known == ToSet(sc.rovers) \cup (IF sc.rovers_initialized THEN {} ELSE beside)
    IN  IF Cardinality(known) < config.initial_num_rovers
           /\ Len(sc.retrieved_rock_locations) >= SPAWN_THRESHOLD
        THEN SPAWN_TRIM ELSE 0

\* C22: a spacecraft turn first takes 100 entries off its retrieved-rock log
\* when it attempts a spawn, and then appends exactly one entry for every rover
\* beside the spacecraft that carries a rock, the cell of that rover, and that
\* rover carries no rock afterwards; every other rover keeps its rock on that
\* turn, and no other agent's turn changes the log
C22_RetrievalTally ==
    [][IF Acted("spacecraft", 0)
       THEN LET old == sc.retrieved_rock_locations
                new == sc'.retrieved_rock_locations
                kept == Len(old) - Trimmed
            IN  /\ Len(new) = kept + Cardinality(Carriers)
                /\ \A i \in 1..kept : new[i] = old[Trimmed + i]
                /\ \A r \in Carriers :
                       /\ rovers'[r].rock = NoRock
                       /\ \E i \in (kept + 1)..Len(new) : new[i] = rovers[r].location
                /\ \A r \in DOMAIN rovers \ Carriers :
                       rovers'[r].rock = rovers[r].rock
       ELSE sc'.retrieved_rock_locations = sc.retrieved_rock_locations]_vars

\* the spacecraft has just retrieved a rock while another rover, away from
\* it, still carries one
C22_Witness ==
    /\ Event("spacecraft", 0, 0, None) \in ev
    /\ \E e \in Of("retrieve") :
           /\ rovers[e.a].rock = NoRock
           /\ sc.retrieved_rock_locations # <<>>
           /\ sc.retrieved_rock_locations[Len(sc.retrieved_rock_locations)] = e.loc
    /\ \E q \in DOMAIN rovers :
           rovers[q].rock # NoRock /\ ~Beside(rovers[q].location, sc.location)

\* C22 as stated: on each spacecraft turn the tally, the length of the log,
\* grows by exactly one for every rover beside the spacecraft that carries a
\* rock, and those rovers carry no rock afterwards; every other rover keeps its
\* rock and no other turn changes the tally
C22_TallyGrowsByOne ==
    [][IF Acted("spacecraft", 0)
       THEN /\ Len(sc'.retrieved_rock_locations)
                 = Len(sc.retrieved_rock_locations) + Cardinality(Carriers)
            /\ \A r \in Carriers : rovers'[r].rock = NoRock
            /\ \A r \in DOMAIN rovers \ Carriers :
                   rovers'[r].rock = rovers[r].rock
       ELSE Len(sc'.retrieved_rock_locations) = Len(sc.retrieved_rock_locations)]_vars

\* an alien that cannot engage a rover on its turn: it is within 4 of the
\* spacecraft, or hibernating, or no non-damaged rover is within distance 3
Idle(a) ==
    \/ calculate_distance(sc.location, aliens[a].location) <= SAFE_DISTANCE
    \/ aliens[a].hibernating
    \/ InRange(a) = {}

\* C23: after every alien turn 0 <= chase_moves <= 3; a turn in which the
\* alien engages no rover leaves chase_moves at 0 and is_chasing_rover cleared;
\* a turn in which it may engage one leaves the counter one higher, or at 0
\* when that was the third engagement in a row or no rover was engaged
C23_ChaseCounter ==
    [][\A a \in DOMAIN aliens :
          Acted("alien", a) =>
              /\ aliens'[a].chase_moves \in 0..MAX_CHASE_MOVES
              /\ IF Idle(a)
                 THEN aliens'[a].chase_moves = 0 /\ ~aliens'[a].is_chasing_rover
                 ELSE IF aliens[a].chase_moves + 1 >= MAX_CHASE_MOVES
                 THEN aliens'[a].chase_moves = 0 /\ ~aliens'[a].is_chasing_rover
                 ELSE aliens'[a].chase_moves \in {0, aliens[a].chase_moves + 1}]_vars

\* C24: no attack is made by an alien that starts its turn within Manhattan
\* distance 4 of the spacecraft, and no attack hits a rover that is beside the
\* spacecraft: such a rover is not damaged by any turn of an alien
C24_NoAttackNearSpacecraft ==
    [][/\ \A e \in Of("attack")' :
              /\ calculate_distance(sc.location, aliens[e.a].location) > SAFE_DISTANCE
              /\ ~Beside(rovers[e.b].location, sc.location)
       /\ \A a \in DOMAIN aliens : \A r \in DOMAIN rovers :
              (Acted("alien", a) /\ Beside(rovers[r].location, sc.location)) =>
                  /\ rovers'[r].battery_life = rovers[r].battery_life
                  /\ rovers'[r].damaged = rovers[r].damaged]_vars

\* an alien has just stepped away from a cell within 4 of the spacecraft that
\* lies next to a rover waiting for charge beside the spacecraft, and the rover
\* is intact
C24_Witness ==
    \E e \in Of("step") : \E r \in DOMAIN rovers :
        /\ calculate_distance(sc.location, e.loc) <= SAFE_DISTANCE
        /\ calculate_distance(rovers[r].location, e.loc) = 1
        /\ Beside(rovers[r].location, sc.location)
        /\ rovers[r].request_charging
        /\ ~rovers[r].damaged
        /\ Of("attack") = {}

\* C25: at the end of every agent's turn a rover has ignore_battery set only
\* while it has a target_location and carries no rock; the flag is raised only
\* on a spacecraft turn that puts the rover in a team and gives it a target; the
\* step that clears the target leaves the flag cleared; and a rover that acts
\* with the flag set picks up nothing but the rock at its target
C25_OverrideOnlyWithTarget ==
    /\ [](\A r \in DOMAIN rovers :
            rovers[r].ignore_battery =>
                rovers[r].target_location # None /\ rovers[r].rock = NoRock)
    /\ [][\A r \in DOMAIN rovers :
            /\ ~rovers[r].ignore_battery /\ rovers'[r].ignore_battery =>
                   /\ Acted("spacecraft", 0)
                   /\ \E e \in Of("team")' :
                          e.a = r /\ rovers'[r].target_location = e.loc
            /\ rovers[r].target_location # None
                  /\ rovers'[r].target_location = None =>
                   ~rovers'[r].ignore_battery
            /\ rovers[r].ignore_battery /\ Acted("rover", r) =>
                   \A e \in Of("pickup")' :
                       e.a = r => e.loc = rovers[r].target_location]_vars

\* the leader of a team has just picked up the far rock it was sent for: its
\* battery is still the 100 it was sent with, and the pickup has cleared both
\* its target and its battery override
C25_Witness ==
    \E e \in Of("pickup") :
        /\ Event("rover", e.a, 0, None) \in ev
        /\ rovers[e.a].battery_life = TEAM_LEAD_BATTERY
        /\ calculate_distance(sc.location, rovers[e.a].location) > TEAM_RANGE
        /\ rovers[e.a].rock = e.b
        /\ rovers[e.a].target_location = None
        /\ ~rovers[e.a].ignore_battery

\* the rocks that were picked up and are carried by no rover
Delivered ==
    {k \in DOMAIN rocks :
        rocks[k].picked_up /\ \A r \in DOMAIN rovers : rovers[r].rock # k}

\* C26: a pickup takes a rock that lay on the grid and had never been picked
\* up, and a rover comes to carry a rock in no other way; a rock once picked up
\* stays marked; no rock is carried by two rovers; no rover's scan of its
\* adjacent cells finds a rock that was picked up; and the log of retrieved
\* rocks, empty at setup, is never longer than the number of rocks picked up and
\* no longer carried, hence than the number of rocks placed at setup
C26_PickedUpOnce ==
    /\ [](/\ \A r, q \in DOMAIN rovers :
                (r # q /\ rovers[r].rock # NoRock) =>
                    rovers[r].rock # rovers[q].rock
          /\ \A r \in DOMAIN rovers :
                /\ rovers[r].rock # NoRock => rocks[rovers[r].rock].picked_up
                /\ \A i \in DOMAIN Rover__scan_for_rocks_in_adjacent_cells(World, r) :
                       ~rocks[Rover__scan_for_rocks_in_adjacent_cells(World, r)[i]]
                            .picked_up
          /\ Len(sc.retrieved_rock_locations) <= Cardinality(Delivered)
          /\ Cardinality(Delivered) <= Len(rocks))
    /\ [][/\ \A e \in Of("pickup")' :
               /\ ~rocks[e.b].picked_up
               /\ rocks'[e.b].picked_up
               /\ get_agent(World, e.loc) = [kind |-> "rock", id |-> e.b]
               /\ \A q \in DOMAIN rovers : rovers[q].rock # e.b
           /\ \A k \in DOMAIN rocks : rocks[k].picked_up => rocks'[k].picked_up
           /\ DOMAIN rocks' = DOMAIN rocks
           /\ \A r \in DOMAIN rovers' :
               LET before == IF r \in DOMAIN rovers THEN rovers[r].rock ELSE NoRock
               IN  (rovers'[r].rock # NoRock /\ rovers'[r].rock # before) =>
                       Event("pickup", r, rovers'[r].rock,
                             rovers'[r].location) \in ev']_vars

\* one rock has been retrieved and lies, picked up, beside the spacecraft, and
\* a rover that carries no rock stands next to it, while another rover carries
\* a second rock
C26_Witness ==
    /\ sc.retrieved_rock_locations # <<>>
    /\ \E k \in Delivered : \E r, q \in DOMAIN rovers :
           /\ rovers[r].rock = NoRock
           /\ Beside(rocks[k].location, rovers[r].location)
           /\ rovers[q].rock \notin {NoRock, k}

\* C27: a spacecraft turn that takes 100 entries off its log places exactly one
\* new rover, with battery 100, on a cell beside the spacecraft that was free,
\* and adds it to the rovers it knows; no turn takes any other number of
\* entries off the log, and the log gets no shorter on a turn without a spawn
C27_TrimMeansSpawn ==
    [][LET log == sc.retrieved_rock_locations
           removed == Len(log) + Cardinality(Of("retrieve")') - Len(sc'.retrieved_rock_locations)
       IN  /\ removed \in {0, SPAWN_TRIM}
           /\ removed = SPAWN_TRIM =>
                 /\ Acted("spacecraft", 0)
                 /\ Cardinality(Of("spawn")') = 1
                 /\ \A e \in Of("spawn")' :
                       /\ DOMAIN rovers' = DOMAIN rovers \cup {e.a}
                       /\ e.a \notin DOMAIN rovers
                       /\ rovers'[e.a].battery_life = DEFAULT_BATTERY_LIFE
                       /\ Beside(e.loc, sc.location)
                       /\ mars[e.loc] = NoAgent
                       /\ mars'[e.loc] = RoverCell(e.a)
                       /\ Contains(sc'.rovers, e.a)
                       /\ ~Contains(sc.rovers, e.a)
           /\ Of("spawn")' = {} =>
                 Len(sc'.retrieved_rock_locations) >= Len(log)]_vars

\* C10: after every step the grid records every rover, every alien and the
\* spacecraft at that agent's own location, so one agent to a cell; every alien
\* that moved and every rover that was placed entered a cell that was free, and
\* every rover that moved entered a free cell or the cell of the rock it picked
\* up in that step
C10_MovesEnterFreeCells ==
    [][/\ \A r \in DOMAIN rovers' : mars'[rovers'[r].location] = RoverCell(r)
       /\ \A a \in DOMAIN aliens' : mars'[aliens'[a].location] = AlienCell(a)
       /\ mars'[sc'.location] = SpacecraftCell
       /\ \A a \in DOMAIN aliens :
              aliens'[a].location # aliens[a].location =>
                  mars[aliens'[a].location] = NoAgent
       /\ \A r \in DOMAIN rovers :
              LET new == rovers'[r].location
              IN  new # rovers[r].location =>
                      \/ mars[new] = NoAgent
                      \/ /\ mars[new].kind = "rock"
                         /\ rovers'[r].rock = mars[new].id
                         /\ Event("pickup", r, mars[new].id, new) \in ev'
       /\ \A e \in Of("spawn")' : mars[e.loc] = NoAgent]_vars

====
